---- MODULE Spec2Model ----
(***************************************************************************)
(* CodeInfo (crates/bytecode/src/eof/code_info.rs): the 4-byte record of   *)
(* the EOF types section, its queries, encode, decode and validate.        *)
(*                                                                         *)
(* Specifications:                                                         *)
(*   Spec      a producer appends records to a Vec<u8> with encode, then a *)
(*             consumer hands a slice of it to decode, once or in a loop   *)
(*             that feeds every call the previous remainder;               *)
(*   FairSpec  Spec with the chained caller's steps weakly fair;           *)
(*   SpecUnit  one CodeInfo built with new() over the whole u8 x u8 range  *)
(*             of inputs/outputs, then queried, validated, or encoded into *)
(*             an empty buffer and decoded back.                           *)
(***************************************************************************)
EXTENDS Integers, Sequences, FiniteSets, TLC

VARIABLES
    pc,         \* position of the caller
    section,    \* SpecUnit: the CodeInfo under test
    ret,        \* SpecUnit: what the last query / validate call returned
    prefix,     \* content of the output buffer before the first encode
    buffer,     \* the caller-owned Vec<u8> encode appends to
    encoded,    \* the records passed to encode so far, in call order
    stream,     \* the slice first handed to decode
    input,      \* the slice the next decode call gets (the cursor)
    arg,        \* the slice the last decode call got
    result,     \* outcome of the last decode call
    decoded,    \* the records returned by successful decode calls, in order
    calls       \* number of decode calls made

vars == <<pc, section, ret, prefix, buffer, encoded, stream, input, arg,
          result, decoded, calls>>

---------------------------------------------------------------------------
(* Bounds of the model *)

\* most records the producer encodes into one buffer
MaxRecords == 2
\* most trailing bytes the consumer cuts off the buffer before decoding
MaxCut == 3

(* Program constants *)

\* const EOF_NON_RETURNING_FUNCTION: u8 = 0x80
EOF_NON_RETURNING_FUNCTION == 128

U8 == 0..255
U16 == 0..65535

\* max_stack_size values for SpecUnit: both bytes used, both limits, u16::MAX
StackUnitSamples == {0, 5, 255, 256, 258, 1023, 1024, 65535}
\* what the output buffer may hold before the first encode
PrefixSamples == {<<>>, <<171>>}

---------------------------------------------------------------------------
(* The value type and the pure functions *)

\* CodeInfo::new: no validation
new(inputs, outputs, max_stack_size) ==
    [inputs |-> inputs, outputs |-> outputs, max_stack_size |-> max_stack_size]

\* #[derive(Default)]
DefaultCodeInfo == new(0, 0, 0)

\* records that satisfy every invariant, the limits included
ValidSamples ==
    { new(0, 0, 0), new(0, 128, 5), new(5, 1, 5), new(10, 1, 1023),
      new(0, 1, 1023), new(1, 2, 258), new(127, 128, 1023) }

\* records that break one invariant at its limit, or several
InvalidSamples ==
    { new(128, 1, 1023), new(0, 129, 5), new(0, 1, 1024), new(10, 1, 5),
      new(127, 128, 126), new(128, 129, 1024), new(128, 129, 65280),
      new(255, 255, 65535) }

\* the records the producer of Spec encodes
CodeInfoSamples == ValidSamples \cup InvalidSamples

\* mutant: >= in place of ==
is_non_returning_ge(self) == self.outputs >= EOF_NON_RETURNING_FUNCTION

is_non_returning(self) == self.outputs = EOF_NON_RETURNING_FUNCTION

\* `x as i32` of a u8: zero extension
u8_as_i32(x) == x % 256

\* i32::MAX, the largest value of io_diff's result type
I32_MAX == 2147483647

\* the i32 an integer result wraps to (two's complement)
wrap_i32(v) ==
    IF v > I32_MAX THEN (v - I32_MAX) - I32_MAX - 2
    ELSE IF v < -I32_MAX - 1 THEN (v + I32_MAX) + I32_MAX + 2
    ELSE v

\* mutant: the subtraction is done in u8 (wrapping) before widening
io_diff_u8(self) == (self.outputs - self.inputs) % 256

io_diff(self) == wrap_i32(u8_as_i32(self.outputs) - u8_as_i32(self.inputs))

\* u16::to_be_bytes
to_be_bytes(v) == <<v \div 256, v % 256>>

to_le_bytes(v) == <<v % 256, v \div 256>>

\* mutant: to_le_bytes in place of to_be_bytes
encode_le(self, buf) ==
    Append(Append(buf, self.inputs), self.outputs) \o to_le_bytes(self.max_stack_size)

\* mutant: max_stack_size pushed as one byte (`as u8`)
encode_narrow(self, buf) ==
    Append(Append(Append(buf, self.inputs), self.outputs), self.max_stack_size % 256)

\* mutant: the buffer is cleared before the record is written
encode_overwrite(self, buf) ==
    <<self.inputs, self.outputs>> \o to_be_bytes(self.max_stack_size)

\* CodeInfo::encode: two push calls and extend_from_slice
encode(self, buf) ==
    Append(Append(buf, self.inputs), self.outputs) \o to_be_bytes(self.max_stack_size)

\* mutant: the inputs <= max_stack_size test is missing
validate_no_cross(self) ==
    IF self.inputs > 127 \/ self.outputs > 128 \/ self.max_stack_size > 1023
    THEN "InvalidCodeInfo"
    ELSE "Ok"

\* CodeInfo::validate: "Ok" for Ok(()), else the error variant
validate(self) ==
    IF self.inputs > 127 \/ self.outputs > 128 \/ self.max_stack_size > 1023
    THEN "InvalidCodeInfo"
    ELSE IF self.inputs > self.max_stack_size
         THEN "InvalidCodeInfo"
         ELSE "Ok"

\* Result values of the decode helpers and of decode
Ok(val, rest) == [tag |-> "Ok", val |-> val, rest |-> rest]
Err(e) == [tag |-> e]

\* decode_helpers::consume_u8: the next byte and the rest, or truncation
consume_u8(in) ==
    IF Len(in) < 1 THEN Err("TruncatedInput")
    ELSE Ok(in[1], SubSeq(in, 2, Len(in)))

\* decode_helpers::consume_u16: the next two bytes, big-endian, and the rest
consume_u16(in) ==
    IF Len(in) < 2 THEN Err("TruncatedInput")
    ELSE Ok(in[1] * 256 + in[2], SubSeq(in, 3, Len(in)))

\* mutant: section.validate()? is missing
decode_no_validate(in) ==
    LET r1 == consume_u8(in) IN
    IF r1.tag # "Ok" THEN Err(r1.tag) ELSE
    LET r2 == consume_u8(r1.rest) IN
    IF r2.tag # "Ok" THEN Err(r2.tag) ELSE
    LET r3 == consume_u16(r2.rest) IN
    IF r3.tag # "Ok" THEN Err(r3.tag) ELSE
    Ok(new(r1.val, r2.val, r3.val), r3.rest)

\* mutant: each field is range-checked as soon as it is read
decode_eager_check(in) ==
    LET r1 == consume_u8(in) IN
    IF r1.tag # "Ok" THEN Err(r1.tag) ELSE
    IF r1.val > 127 THEN Err("InvalidCodeInfo") ELSE
    LET r2 == consume_u8(r1.rest) IN
    IF r2.tag # "Ok" THEN Err(r2.tag) ELSE
    IF r2.val > 128 THEN Err("InvalidCodeInfo") ELSE
    LET r3 == consume_u16(r2.rest) IN
    IF r3.tag # "Ok" THEN Err(r3.tag) ELSE
    LET s == new(r1.val, r2.val, r3.val) IN
    IF validate(s) # "Ok" THEN Err(validate(s)) ELSE Ok(s, r3.rest)

\* mutant: the remainder returned is the one before consume_u16
decode_stale_rest(in) ==
    LET r1 == consume_u8(in) IN
    IF r1.tag # "Ok" THEN Err(r1.tag) ELSE
    LET r2 == consume_u8(r1.rest) IN
    IF r2.tag # "Ok" THEN Err(r2.tag) ELSE
    LET r3 == consume_u16(r2.rest) IN
    IF r3.tag # "Ok" THEN Err(r3.tag) ELSE
    LET s == new(r1.val, r2.val, r3.val) IN
    IF validate(s) # "Ok" THEN Err(validate(s)) ELSE Ok(s, r2.rest)

\* mutant: the remainder returned is the whole input
decode_no_advance(in) ==
    LET r1 == consume_u8(in) IN
    IF r1.tag # "Ok" THEN Err(r1.tag) ELSE
    LET r2 == consume_u8(r1.rest) IN
    IF r2.tag # "Ok" THEN Err(r2.tag) ELSE
    LET r3 == consume_u16(r2.rest) IN
    IF r3.tag # "Ok" THEN Err(r3.tag) ELSE
    LET s == new(r1.val, r2.val, r3.val) IN
    IF validate(s) # "Ok" THEN Err(validate(s)) ELSE Ok(s, in)

\* CodeInfo::decode: each `?` returns the helper's error unchanged
decode(in) ==
    LET r1 == consume_u8(in) IN
    IF r1.tag # "Ok" THEN Err(r1.tag) ELSE
    LET r2 == consume_u8(r1.rest) IN
    IF r2.tag # "Ok" THEN Err(r2.tag) ELSE
    LET r3 == consume_u16(r2.rest) IN
    IF r3.tag # "Ok" THEN Err(r3.tag) ELSE
    LET s == new(r1.val, r2.val, r3.val) IN
    IF validate(s) # "Ok" THEN Err(validate(s)) ELSE Ok(s, r3.rest)

---------------------------------------------------------------------------
(* One call of CodeInfo::decode on the slice `in` by a caller that keeps the *)
(* returned record and remainder on success and keeps its own slice *)
(* unchanged on failure (the input slice is read-only). *)
DecodeCall(in) ==
    LET r == decode(in) IN
    /\ arg' = in
    /\ calls' = calls + 1
    /\ result' = r.tag
    /\ IF r.tag = "Ok"
       THEN /\ decoded' = Append(decoded, r.val)
            /\ input' = r.rest
       ELSE /\ decoded' = decoded
            /\ input' = in

\* the slice of the buffer without its last k bytes
CutTail(buf, k) == SubSeq(buf, 1, Len(buf) - k)

\* the chained caller goes on while no call failed and bytes are left
LoopContinues == result \in {"none", "Ok"} /\ input # <<>>

\* cap on the decode calls of one loop; the code's loop never reaches it
MaxCalls == MaxRecords + 3

---------------------------------------------------------------------------
(* Spec: producer, then consumer *)

NoRet == [op |-> "none", val |-> FALSE]

Init ==
    /\ pc = "writing"
    /\ section = DefaultCodeInfo
    /\ ret = NoRet
    /\ prefix \in PrefixSamples
    /\ buffer = prefix
    /\ encoded = <<>>
    /\ stream = <<>>
    /\ input = <<>>
    /\ arg = <<>>
    /\ result = "none"
    /\ decoded = <<>>
    /\ calls = 0

\* the producer encodes one more record, valid or not
Encode(x) ==
    /\ pc = "writing"
    /\ Len(encoded) < MaxRecords
    /\ buffer' = encode(x, buffer)
    /\ encoded' = Append(encoded, x)
    /\ UNCHANGED <<pc, section, ret, prefix, stream, input, arg, result, decoded, calls>>

\* a single decode call on the buffer without its last k bytes
DecodeOnce(k) ==
    /\ pc = "writing"
    /\ k <= Len(buffer)
    /\ stream' = CutTail(buffer, k)
    /\ DecodeCall(CutTail(buffer, k))
    /\ pc' = "once_done"
    /\ UNCHANGED <<section, ret, prefix, buffer, encoded>>

\* the chained caller takes the buffer without its last k bytes as its stream
BeginLoop(k) ==
    /\ pc = "writing"
    /\ k <= Len(buffer)
    /\ stream' = CutTail(buffer, k)
    /\ input' = CutTail(buffer, k)
    /\ pc' = "loop"
    /\ UNCHANGED <<section, ret, prefix, buffer, encoded, arg, result, decoded, calls>>

\* the chained caller decodes the current remainder
DecodeNext ==
    /\ pc = "loop"
    /\ LoopContinues
    /\ calls < MaxCalls
    /\ DecodeCall(input)
    /\ UNCHANGED <<pc, section, ret, prefix, buffer, encoded, stream>>

\* the chained caller stops: first error, or nothing left
LoopExit ==
    /\ pc = "loop"
    /\ ~LoopContinues
    /\ pc' = "loop_done"
    /\ UNCHANGED <<section, ret, prefix, buffer, encoded, stream, input, arg,
                   result, decoded, calls>>

Next ==
    \/ \E x \in CodeInfoSamples : Encode(x)
    \/ \E k \in 0..MaxCut : DecodeOnce(k)
    \/ \E k \in 0..MaxCut : BeginLoop(k)
    \/ DecodeNext
    \/ LoopExit

Spec == Init /\ [][Next]_vars

\* the chained caller is sequential code: an enabled step is taken
FairSpec == Spec /\ WF_vars(DecodeNext) /\ WF_vars(LoopExit)

---------------------------------------------------------------------------
(* SpecUnit: one value, its queries, and one round trip *)

UnitInit ==
    /\ pc = "unit"
    /\ section = DefaultCodeInfo
    /\ ret = NoRet
    /\ prefix = <<>>
    /\ buffer = <<>>
    /\ encoded = <<>>
    /\ stream = <<>>
    /\ input = <<>>
    /\ arg = <<>>
    /\ result = "none"
    /\ decoded = <<>>
    /\ calls = 0

\* CodeInfo::new with any u8 inputs and outputs
New ==
    /\ pc = "unit"
    /\ \E i \in U8, o \in U8, m \in StackUnitSamples : section' = new(i, o, m)
    /\ pc' = "made"
    /\ UNCHANGED <<ret, prefix, buffer, encoded, stream, input, arg, result, decoded, calls>>

IsNonReturning ==
    /\ pc = "made"
    /\ ret' = [op |-> "is_non_returning", val |-> is_non_returning(section)]
    /\ pc' = "queried"
    /\ UNCHANGED <<section, prefix, buffer, encoded, stream, input, arg, result, decoded, calls>>

IoDiff ==
    /\ pc = "made"
    /\ ret' = [op |-> "io_diff", val |-> io_diff(section)]
    /\ pc' = "queried"
    /\ UNCHANGED <<section, prefix, buffer, encoded, stream, input, arg, result, decoded, calls>>

Validate ==
    /\ pc = "made"
    /\ ret' = [op |-> "validate", val |-> validate(section)]
    /\ pc' = "queried"
    /\ UNCHANGED <<section, prefix, buffer, encoded, stream, input, arg, result, decoded, calls>>

UnitEncode ==
    /\ pc = "made"
    /\ buffer' = encode(section, buffer)
    /\ encoded' = Append(encoded, section)
    /\ pc' = "unit_encoded"
    /\ UNCHANGED <<section, ret, prefix, stream, input, arg, result, decoded, calls>>

UnitDecode ==
    /\ pc = "unit_encoded"
    /\ stream' = buffer
    /\ DecodeCall(buffer)
    /\ pc' = "unit_decoded"
    /\ UNCHANGED <<section, ret, prefix, buffer, encoded>>

UnitNext ==
    \/ New
    \/ IsNonReturning
    \/ IoDiff
    \/ Validate
    \/ UnitEncode
    \/ UnitDecode

SpecUnit == UnitInit /\ [][UnitNext]_vars

---------------------------------------------------------------------------
(* Properties *)

\* the four invariants of a well-formed record, as the data model states them
FourInvariants(x) ==
    /\ x.inputs <= 127
    /\ x.outputs <= 128
    /\ x.max_stack_size <= 1023
    /\ x.inputs <= x.max_stack_size

\* the record the first 4 bytes of a slice spell
Candidate(in) == new(in[1], in[2], in[3] * 256 + in[4])

\* the wire bytes of a record
WireBytes(x) ==
    <<x.inputs, x.outputs, x.max_stack_size \div 256, x.max_stack_size % 256>>

\* a step that is one decode call
IsDecodeStep == calls' = calls + 1

\* C1: a record that passes validate, encoded into an empty buffer and decoded
\* from that buffer, comes back unchanged with an empty remainder.
C1_RoundTrip ==
    (pc = "unit_decoded" /\ validate(section) = "Ok") =>
        /\ arg = buffer
        /\ result = "Ok"
        /\ decoded = <<section>>
        /\ input = <<>>

C1_Witness ==
    /\ pc = "unit_decoded"
    /\ section = new(127, 128, 258)
    /\ validate(section) = "Ok"
    /\ result = "Ok"
    /\ decoded = <<section>>

\* C2: validate returns Ok exactly when the four invariants hold together and
\* InvalidCodeInfo otherwise; the boundary cases of the specification follow.
C2_ValidateIff ==
    (pc = "queried" /\ ret.op = "validate") =>
        /\ ret.val \in {"Ok", "InvalidCodeInfo"}
        /\ (ret.val = "Ok") <=> FourInvariants(section)
        /\ section.inputs = 128 => ret.val = "InvalidCodeInfo"
        /\ section.outputs = 129 => ret.val = "InvalidCodeInfo"
        /\ section.max_stack_size = 1024 => ret.val = "InvalidCodeInfo"
        /\ (section.inputs = 10 /\ section.max_stack_size = 5) => ret.val = "InvalidCodeInfo"
        /\ section = new(127, 128, 1023) => ret.val = "Ok"

C2_Witness ==
    /\ pc = "queried"
    /\ ret.op = "validate"
    /\ section = new(10, 128, 5)
    /\ ret.val = "InvalidCodeInfo"

\* C3: a decode call on at least 4 bytes never reports truncation: it returns
\* the record its first 4 bytes spell when that record satisfies the four
\* invariants, and InvalidCodeInfo with no record otherwise.
C3_DecodeValidates ==
    [][(IsDecodeStep /\ Len(arg') >= 4) =>
          IF FourInvariants(Candidate(arg'))
          THEN /\ result' = "Ok"
               /\ decoded' = Append(decoded, Candidate(arg'))
               /\ validate(decoded'[Len(decoded')]) = "Ok"
          ELSE /\ result' = "InvalidCodeInfo"
               /\ decoded' = decoded]_vars

C3_Witness ==
    /\ calls = 2
    /\ Len(arg) >= 4
    /\ SubSeq(arg, 1, 4) = <<10, 1, 0, 5>>
    /\ result = "InvalidCodeInfo"
    /\ Len(decoded) = 1

\* C4: a decode call on 0 to 3 bytes fails with the truncation error and
\* returns no record, whatever the bytes are.
C4_Truncation ==
    [][(IsDecodeStep /\ Len(arg') < 4) =>
          /\ result' = "TruncatedInput"
          /\ decoded' = decoded]_vars

C4_Witness ==
    /\ calls = 1
    /\ arg = <<128, 129, 255>>
    /\ result = "TruncatedInput"
    /\ decoded = <<>>

\* the chained caller reads the whole buffer, which holds valid records only
C5_AllValidStream ==
    /\ pc \in {"loop", "loop_done"}
    /\ prefix = <<>>
    /\ stream = buffer
    /\ \A i \in 1..Len(encoded) : FourInvariants(encoded[i])

C5_Inv ==
    C5_AllValidStream =>
        /\ result \in {"none", "Ok"}
        /\ calls <= Len(encoded)
        /\ decoded = SubSeq(encoded, 1, calls)
        /\ Len(input) = 4 * (Len(encoded) - calls)
        /\ calls = Len(encoded) => input = <<>>
        /\ pc = "loop_done" => calls = Len(encoded)

C5_Step ==
    (IsDecodeStep /\ result' = "Ok") =>
        /\ Len(input') = Len(arg') - 4
        /\ input' = SubSeq(arg', 5, Len(arg'))
        /\ pc = "loop" => arg' = input

\* C5: a successful decode returns its input without the first 4 bytes, and a
\* loop over the concatenated encodings of valid records x1..xn returns them in
\* order, with 4*(n-k) bytes left after the k-th call and none after the n-th.
C5_Sequential == []C5_Inv /\ [][C5_Step]_vars

C5_Witness ==
    /\ C5_AllValidStream
    /\ pc = "loop_done"
    /\ encoded = <<new(10, 1, 1023), new(0, 128, 5)>>
    /\ decoded = encoded
    /\ calls = 2
    /\ input = <<>>

\* the buffer is its first content followed by the records' wire bytes
C6_Layout ==
    /\ Len(buffer) = Len(prefix) + 4 * Len(encoded)
    /\ SubSeq(buffer, 1, Len(prefix)) = prefix
    /\ \A k \in 1..Len(encoded) :
          SubSeq(buffer, Len(prefix) + 4 * (k - 1) + 1, Len(prefix) + 4 * k)
              = WireBytes(encoded[k])

C6_Step ==
    (encoded' # encoded) =>
        /\ Len(encoded') = Len(encoded) + 1
        /\ buffer' = buffer \o WireBytes(encoded'[Len(encoded')])

\* C6: encode appends exactly the 4 wire bytes of the record to the buffer and
\* leaves the bytes already there unchanged, for valid and invalid records
\* alike; after n calls on an empty buffer the k-th record is at 4(k-1)..4k-1.
C6_PureAppend == []C6_Layout /\ [][C6_Step]_vars

C6_Witness ==
    /\ prefix = <<171>>
    /\ encoded = <<new(128, 129, 65280), new(0, 1, 1023)>>
    /\ buffer = <<171, 128, 129, 255, 0, 0, 1, 3, 255>>

\* C7: io_diff is the exact signed difference outputs - inputs, in -255..255,
\* negative exactly when inputs > outputs.
C7_IoDiff ==
    (pc = "queried" /\ ret.op = "io_diff") =>
        /\ ret.val = section.outputs - section.inputs
        /\ ret.val \in -255..255
        /\ (ret.val < 0) <=> (section.inputs > section.outputs)
        /\ (section.inputs = 2 /\ section.outputs = 128) => ret.val = 126

C7_Witness ==
    /\ pc = "queried"
    /\ ret.op = "io_diff"
    /\ section = new(255, 0, 5)
    /\ ret.val = -255

\* C8: is_non_returning is true exactly when outputs is 0x80, also for records
\* that fail validate.
C8_NonReturning ==
    (pc = "queried" /\ ret.op = "is_non_returning") =>
        (ret.val <=> (section.outputs = 128))

C8_Witness ==
    /\ pc = "queried"
    /\ ret.op = "is_non_returning"
    /\ section = new(0, 129, 65535)
    /\ ret.val = FALSE

\* C9: when decode succeeds with (x, rest), encoding x into an empty buffer
\* gives the first 4 bytes of the input, and that followed by rest is the input.
C9_Canonical ==
    (calls >= 1 /\ result = "Ok") =>
        LET x == decoded[Len(decoded)] IN
        /\ encode(x, <<>>) = SubSeq(arg, 1, 4)
        /\ encode(x, <<>>) \o input = arg

C9_Witness ==
    /\ calls = 1
    /\ result = "Ok"
    /\ arg = <<127, 128, 3, 255, 128, 1, 3>>
    /\ decoded = <<new(127, 128, 1023)>>
    /\ input = <<128, 1, 3>>

\* the cursor of the chained caller: bytes of the stream consumed so far
Offset == Len(stream) - Len(input)

EndsEmpty ==
    /\ input = <<>>
    /\ result \in {"none", "Ok"}
    /\ \A i \in 1..Len(decoded) : FourInvariants(decoded[i])

EndsInvalid == result = "InvalidCodeInfo" /\ Len(input) >= 4

EndsTruncated == result = "TruncatedInput" /\ Len(input) \in 1..3

C10_Inv ==
    pc \in {"loop", "loop_done"} =>
        /\ calls <= (Len(stream) \div 4) + 1
        /\ Offset % 4 = 0
        /\ Offset >= 0
        /\ input = SubSeq(stream, Offset + 1, Len(stream))
        /\ pc = "loop_done" =>
              /\ EndsEmpty \/ EndsInvalid \/ EndsTruncated
              /\ ~(EndsEmpty /\ EndsInvalid)
              /\ ~(EndsEmpty /\ EndsTruncated)
              /\ ~(EndsInvalid /\ EndsTruncated)

C10_Step ==
    (pc = "loop" /\ pc' \in {"loop", "loop_done"}) =>
        Len(stream') - Len(input') >= Offset

\* C10: the chained caller terminates after at most floor(L/4) + 1 decode
\* calls, its cursor offset is a multiple of 4 and never decreases, and it ends
\* with an empty remainder after valid records only, or with InvalidCodeInfo and
\* at least 4 bytes at the cursor, or with truncation and 1 to 3 bytes there.
C10_LoopTerminates ==
    /\ []C10_Inv
    /\ [][C10_Step]_vars
    /\ (pc = "loop") ~> (pc = "loop_done")

C10_Witness ==
    /\ pc = "loop_done"
    /\ Len(stream) = 7
    /\ calls = 2
    /\ EndsTruncated
    /\ Len(decoded) = 1

====
